---- MODULE Spec2Model ----
(***************************************************************************)
(* Pomodoro Plants: the focus-session / break state machine of             *)
(* PlantViewProvider (src/src/plantViewProvider.ts) and the host events    *)
(* wired to it in src/src/extension.ts.                                    *)
(*                                                                         *)
(* Every method of the provider is an operator from the provider's         *)
(* "machine" (its fields plus the host values it reads) to the machine     *)
(* after the call, written statement by statement.  An action of the       *)
(* specification is one host event: a command, a webview message, a        *)
(* window state change, a configuration change, one firing of a live       *)
(* setInterval callback, a new extension host process.                     *)
(***************************************************************************)
EXTENDS Integers, Sequences, FiniteSets, TLC

VARIABLES
    _state,            \* PlantViewProvider._state : GardenState
    _timerInterval,    \* PlantViewProvider._timerInterval: "none" (undefined) or the kind of the interval it refers to
    _isWindowFocused,  \* PlantViewProvider._isWindowFocused
    _view,             \* PlantViewProvider._view is set
    intervals,         \* the host's live setInterval timers, counted by kind of callback
    globalState,       \* context.globalState 'gardenState': <<>> or <<record>>
    settings,          \* the pomodoroPlants configuration section
    today,             \* the calendar date of the wall clock, as a day number
    posted,            \* the last message handed to webview.postMessage: <<>> or <<message>>
    shown,             \* the information messages shown by the last event
    lastOp,            \* the last host event
    chosen,            \* history of the scene chosen by 'changeBreakScene' (see Chosen)
    atLoss,            \* history of the session since the window lost focus (see AtLoss)
    ready              \* history of the 'plant is ready' messages of the session (see Ready)

vars == <<_state, _timerInterval, _isWindowFocused, _view, intervals, globalState,
          settings, today, posted, shown, lastOp, chosen, atLoss, ready>>

----------------------------------------------------------------------------
(* Bounds of the model *)

MaxDuration == 2             \* pomodoroDuration ranges over 1..MaxDuration
MaxBreak == 2                \* shortBreakDuration, longBreakDuration range over 1..MaxBreak
MaxSessionsBeforeLong == 2   \* sessionsBeforeLongBreak ranges over 1..MaxSessionsBeforeLong
MaxCompleted == 2            \* harvests are explored while completedSessions < MaxCompleted
MaxDay == 1                  \* the wall clock runs over days 0..MaxDay
MaxIntervals == 2            \* setInterval is explored while fewer than MaxIntervals timers of a kind are live
LongDuration == 10           \* pomodoroDuration of the configuration in which a session passes through all ten stages
MaxReady == 2                \* 'plant is ready' messages of one session are counted up to MaxReady

----------------------------------------------------------------------------
(* Constants of the program *)

BREAK_SCENES == <<"hayBale", "lemonade", "fishing", "treeNap">>

STAGES == <<"dirt", "watered", "cracking", "seedling", "sprout",
            "baby", "growing", "leafy", "budding", "fruiting">>

\* Math.floor(Math.random() * BREAK_SCENES.length): any index of BREAK_SCENES
RandomScenes == 0 .. (Len(BREAK_SCENES) - 1)

\* The three duration settings are JavaScript numbers of minutes.  The model
\* holds such a setting as a whole number of sixtieths of a minute, so that
\* the program's "minutes * 60" is a whole number of seconds.
TimesSixty(sixtieths) == (sixtieths * 60) \div 60

\* The configurations explored.  BaseSettings has the shape of the defaults
\* (a long break longer than a short one, several sessions before a long
\* break, no auto-start, notifications on) at the size of the bounds; each
\* specification varies some of the six settings around it.
BaseSettings ==
    [pomodoroDuration |-> MaxDuration,
     shortBreakDuration |-> 1,
     longBreakDuration |-> MaxBreak,
     sessionsBeforeLongBreak |-> MaxSessionsBeforeLong,
     autoStartOnFocus |-> FALSE,
     showNotifications |-> TRUE]

SessionSettings ==
    {[BaseSettings EXCEPT !.pomodoroDuration = d, !.autoStartOnFocus = a] :
        d \in 1 .. MaxDuration, a \in BOOLEAN}

BreakSettings ==
    {[BaseSettings EXCEPT !.pomodoroDuration = 1,
                          !.longBreakDuration = l,
                          !.sessionsBeforeLongBreak = n] :
        l \in 1 .. MaxBreak, n \in 1 .. MaxSessionsBeforeLong}

NotifySettings ==
    {[BaseSettings EXCEPT !.showNotifications = n] : n \in BOOLEAN}

FocusSettings ==
    {[BaseSettings EXCEPT !.autoStartOnFocus = a] : a \in BOOLEAN}

StageSettings == [BaseSettings EXCEPT !.pomodoroDuration = LongDuration]

GardenFields == {"fruitsCollected", "lastResetDate", "currentSessionSeconds",
                 "isTimerRunning", "completedSessions", "isOnBreak",
                 "breakSecondsRemaining", "currentBreakScene", "nextBreakScene"}

----------------------------------------------------------------------------
(* The machine: the provider's fields and the host values its methods read *)

Machine ==
    [state |-> _state, timerInterval |-> _timerInterval,
     isWindowFocused |-> _isWindowFocused, view |-> _view,
     intervals |-> intervals, globalState |-> globalState,
     settings |-> settings, today |-> today, posted |-> posted,
     shown |-> <<>>]

getSettings(m) == m.settings

_getPomodoroDurationSeconds(m) == TimesSixty(getSettings(m).pomodoroDuration)

_getTodayString(m) == m.today

saveState(m) == [m EXCEPT !.globalState = <<m.state>>]

showInformationMessage(m, text) == [m EXCEPT !.shown = Append(m.shown, text)]

----------------------------------------------------------------------------
(* The host's timers.  setInterval starts a new live timer and returns its *)
(* handle; clearInterval ends the timer a handle refers to.                *)

NoIntervals == [work |-> 0, break |-> 0]

setInterval(m, kind) ==
    [m EXCEPT !.intervals[kind] = IF @ < MaxIntervals THEN @ + 1 ELSE @,
              !.timerInterval = kind]

clearInterval(m, handle) ==
    [m EXCEPT !.intervals[handle] = IF @ > 0 THEN @ - 1 ELSE @]

\* mutant: the handle is dropped without clearInterval
_stopTimerInterval_ForgetsInterval(m) == [m EXCEPT !.timerInterval = "none"]

_stopTimerInterval(m) ==
    IF m.timerInterval # "none"
    THEN [clearInterval(m, m.timerInterval) EXCEPT !.timerInterval = "none"]
    ELSE m

----------------------------------------------------------------------------
(* The render projection *)

padStart2(s) == IF Len(s) < 2 THEN "0" \o s ELSE s

\* Math.floor(n / 60) and the JavaScript remainder n % 60 (sign of the dividend)
FloorDiv60(n) == n \div 60
JsRem60(n) == IF n >= 0 THEN n % 60 ELSE -((-n) % 60)

TimeString(n) ==
    padStart2(ToString(FloorDiv60(n))) \o ":" \o padStart2(ToString(JsRem60(n)))

\* mutant: the comparisons with the thresholds are <=
ProgressBelowTenths_Inclusive(seconds, duration, k) == seconds * 10 <= k * duration

\* progress < k/10 for progress = currentSessionSeconds / duration
ProgressBelowTenths(seconds, duration, k) == seconds * 10 < k * duration

\* mutant: the comparison with 0.8 is missing, so 'leafy' is never returned
_getCurrentStage_SkipsLeafy(m) ==
    LET s == m.state.currentSessionSeconds
        d == _getPomodoroDurationSeconds(m)
    IN  IF ProgressBelowTenths(s, d, 1) THEN "dirt"
        ELSE IF ProgressBelowTenths(s, d, 2) THEN "watered"
        ELSE IF ProgressBelowTenths(s, d, 3) THEN "cracking"
        ELSE IF ProgressBelowTenths(s, d, 4) THEN "seedling"
        ELSE IF ProgressBelowTenths(s, d, 5) THEN "sprout"
        ELSE IF ProgressBelowTenths(s, d, 6) THEN "baby"
        ELSE IF ProgressBelowTenths(s, d, 7) THEN "growing"
        ELSE IF ProgressBelowTenths(s, d, 9) THEN "budding"
        ELSE "fruiting"

_getCurrentStage(m) ==
    LET s == m.state.currentSessionSeconds
        d == _getPomodoroDurationSeconds(m)
    IN  IF ProgressBelowTenths(s, d, 1) THEN "dirt"
        ELSE IF ProgressBelowTenths(s, d, 2) THEN "watered"
        ELSE IF ProgressBelowTenths(s, d, 3) THEN "cracking"
        ELSE IF ProgressBelowTenths(s, d, 4) THEN "seedling"
        ELSE IF ProgressBelowTenths(s, d, 5) THEN "sprout"
        ELSE IF ProgressBelowTenths(s, d, 6) THEN "baby"
        ELSE IF ProgressBelowTenths(s, d, 7) THEN "growing"
        ELSE IF ProgressBelowTenths(s, d, 8) THEN "leafy"
        ELSE IF ProgressBelowTenths(s, d, 9) THEN "budding"
        ELSE "fruiting"

\* mutant: the quotient is not capped at 1
Progress_Uncapped(seconds, duration) == <<seconds, duration>>

\* Math.min(currentSessionSeconds / duration, 1) as a fraction <<numerator, denominator>>
Progress(seconds, duration) ==
    IF seconds < duration THEN <<seconds, duration>> ELSE <<1, 1>>

SceneName(index) ==
    IF index \in RandomScenes THEN BREAK_SCENES[index + 1] ELSE "undefined"

_updateWebview(m) ==
    IF ~m.view THEN m
    ELSE LET stage == _getCurrentStage(m)
             duration == _getPomodoroDurationSeconds(m)
             remainingSeconds == duration - m.state.currentSessionSeconds
         IN  IF m.state.isOnBreak
             THEN [m EXCEPT !.posted =
                    <<[isOnBreak |-> TRUE,
                       breakScene |-> SceneName(m.state.currentBreakScene),
                       breakTimeRemaining |-> TimeString(m.state.breakSecondsRemaining),
                       fruitsCollected |-> m.state.fruitsCollected,
                       completedSessions |-> m.state.completedSessions]>>]
             ELSE [m EXCEPT !.posted =
                    <<[isOnBreak |-> FALSE,
                       stage |-> stage,
                       progress |-> Progress(m.state.currentSessionSeconds, duration),
                       timeRemaining |-> TimeString(remainingSeconds),
                       isRunning |-> m.state.isTimerRunning,
                       isFocused |-> m.isWindowFocused,
                       fruitsCollected |-> m.state.fruitsCollected,
                       canHarvest |-> m.state.currentSessionSeconds >= duration,
                       durationMinutes |-> getSettings(m).pomodoroDuration,
                       nextBreakScene |-> SceneName(m.state.nextBreakScene)]>>]

----------------------------------------------------------------------------
(* Session State Store: load with back-fill, daily reset *)

Has(saved, f) == f \in DOMAIN saved

\* saved.f || dflt : the default when the field is missing or falsy
OrDefault(saved, f, dflt) ==
    IF Has(saved, f) /\ saved[f] # dflt THEN saved[f] ELSE dflt

\* { ...saved, f: v } : the saved fields, with f set to v
Spread(saved, overrides) ==
    [f \in (DOMAIN saved) \cup (DOMAIN overrides) |->
        IF f \in DOMAIN overrides THEN overrides[f] ELSE saved[f]]

\* mutant: nextBreakScene is back-filled with || like the other fields
_loadState_OrScene(m, random) ==
    IF m.globalState # <<>>
    THEN LET saved == m.globalState[1]
         IN  Spread(saved,
                [completedSessions |-> OrDefault(saved, "completedSessions", 0),
                 isOnBreak |-> OrDefault(saved, "isOnBreak", FALSE),
                 breakSecondsRemaining |-> OrDefault(saved, "breakSecondsRemaining", 0),
                 currentBreakScene |-> OrDefault(saved, "currentBreakScene", 0),
                 nextBreakScene |-> IF Has(saved, "nextBreakScene") /\ saved.nextBreakScene # 0
                                    THEN saved.nextBreakScene ELSE random])
    ELSE [fruitsCollected |-> 0,
          lastResetDate |-> _getTodayString(m),
          currentSessionSeconds |-> 0,
          isTimerRunning |-> FALSE,
          completedSessions |-> 0,
          isOnBreak |-> FALSE,
          breakSecondsRemaining |-> 0,
          currentBreakScene |-> 0,
          nextBreakScene |-> random]

_loadState(m, random) ==
    IF m.globalState # <<>>
    THEN LET saved == m.globalState[1]
         IN  Spread(saved,
                [completedSessions |-> OrDefault(saved, "completedSessions", 0),
                 isOnBreak |-> OrDefault(saved, "isOnBreak", FALSE),
                 breakSecondsRemaining |-> OrDefault(saved, "breakSecondsRemaining", 0),
                 currentBreakScene |-> OrDefault(saved, "currentBreakScene", 0),
                 nextBreakScene |-> IF Has(saved, "nextBreakScene")
                                    THEN saved.nextBreakScene ELSE random])
    ELSE [fruitsCollected |-> 0,
          lastResetDate |-> _getTodayString(m),
          currentSessionSeconds |-> 0,
          isTimerRunning |-> FALSE,
          completedSessions |-> 0,
          isOnBreak |-> FALSE,
          breakSecondsRemaining |-> 0,
          currentBreakScene |-> 0,
          nextBreakScene |-> random]

\* mutant: the daily reset leaves lastResetDate as it was
_checkDailyReset_KeepsDate(m) ==
    LET todayString == _getTodayString(m)
    IN  IF m.state.lastResetDate # todayString
        THEN saveState([m EXCEPT !.state.fruitsCollected = 0,
                                 !.state.currentSessionSeconds = 0,
                                 !.state.isTimerRunning = FALSE])
        ELSE m

\* mutant: the daily reset also clears completedSessions
_checkDailyReset_ClearsCompleted(m) ==
    LET todayString == _getTodayString(m)
    IN  IF m.state.lastResetDate # todayString
        THEN saveState([m EXCEPT !.state.fruitsCollected = 0,
                                 !.state.lastResetDate = todayString,
                                 !.state.currentSessionSeconds = 0,
                                 !.state.isTimerRunning = FALSE,
                                 !.state.completedSessions = 0])
        ELSE m

_checkDailyReset(m) ==
    LET todayString == _getTodayString(m)
    IN  IF m.state.lastResetDate # todayString
        THEN saveState([m EXCEPT !.state.fruitsCollected = 0,
                                 !.state.lastResetDate = todayString,
                                 !.state.currentSessionSeconds = 0,
                                 !.state.isTimerRunning = FALSE])
        ELSE m

\* new PlantViewProvider(...) in a fresh extension host: no timer is live,
\* no view is resolved, the window counts as focused
constructor(m, random) ==
    LET fresh == [m EXCEPT !.timerInterval = "none",
                           !.intervals = NoIntervals,
                           !.isWindowFocused = TRUE,
                           !.view = FALSE,
                           !.posted = <<>>]
    IN  _checkDailyReset([fresh EXCEPT !.state = _loadState(fresh, random)])

----------------------------------------------------------------------------
(* Focus Session Controller *)

\* mutant: the tick whose increment reaches the session length also stops
\* the timer
workCallback_StopsOnReach(m) ==
    IF m.state.currentSessionSeconds < _getPomodoroDurationSeconds(m)
    THEN LET m1 == [m EXCEPT !.state.currentSessionSeconds = @ + 1]
         IN  IF m1.state.currentSessionSeconds < _getPomodoroDurationSeconds(m)
             THEN _updateWebview(saveState(m1))
             ELSE _updateWebview(saveState(_stopTimerInterval(m1)))
    ELSE LET m1 == _stopTimerInterval(m)
             m2 == [m1 EXCEPT !.state.isTimerRunning = FALSE]
             m3 == _updateWebview(saveState(m2))
         IN  IF getSettings(m3).showNotifications
             THEN showInformationMessage(m3, "sessionReady")
             ELSE m3

\* the body of the setInterval callback of _startTimerInterval
workCallback(m) ==
    IF m.state.currentSessionSeconds < _getPomodoroDurationSeconds(m)
    THEN _updateWebview(saveState(
            [m EXCEPT !.state.currentSessionSeconds = @ + 1]))
    ELSE LET m1 == _stopTimerInterval(m)
             m2 == [m1 EXCEPT !.state.isTimerRunning = FALSE]
             m3 == _updateWebview(saveState(m2))
         IN  IF getSettings(m3).showNotifications
             THEN showInformationMessage(m3, "sessionReady")
             ELSE m3

\* mutant: the guard on a timer already held is missing
_startTimerInterval_NoGuard(m) == setInterval(m, "work")

_startTimerInterval(m) ==
    IF m.timerInterval # "none" THEN m ELSE setInterval(m, "work")

\* mutant: the tick that ends the break leaves the interval running
breakCallback_Lingers(m) ==
    IF m.state.breakSecondsRemaining > 0
    THEN _updateWebview(saveState(
            [m EXCEPT !.state.breakSecondsRemaining = @ - 1]))
    ELSE LET m2 == [m EXCEPT !.state.isOnBreak = FALSE]
             m3 == _updateWebview(saveState(m2))
         IN  IF getSettings(m3).showNotifications
             THEN showInformationMessage(m3, "breakOver")
             ELSE m3

\* mutant: the break is ended one second early
breakCallback_EndsEarly(m) ==
    IF m.state.breakSecondsRemaining > 1
    THEN _updateWebview(saveState(
            [m EXCEPT !.state.breakSecondsRemaining = @ - 1]))
    ELSE LET m1 == _stopTimerInterval(m)
             m2 == [m1 EXCEPT !.state.isOnBreak = FALSE]
             m3 == _updateWebview(saveState(m2))
         IN  IF getSettings(m3).showNotifications
             THEN showInformationMessage(m3, "breakOver")
             ELSE m3

\* the body of the setInterval callback of _startBreakTimer
breakCallback(m) ==
    IF m.state.breakSecondsRemaining > 0
    THEN _updateWebview(saveState(
            [m EXCEPT !.state.breakSecondsRemaining = @ - 1]))
    ELSE LET m1 == _stopTimerInterval(m)
             m2 == [m1 EXCEPT !.state.isOnBreak = FALSE]
             m3 == _updateWebview(saveState(m2))
         IN  IF getSettings(m3).showNotifications
             THEN showInformationMessage(m3, "breakOver")
             ELSE m3

\* mutant: the work callback is armed for the break
_startBreakTimer_AsWork(m) ==
    IF m.timerInterval # "none" THEN m ELSE setInterval(m, "work")

_startBreakTimer(m) ==
    IF m.timerInterval # "none" THEN m ELSE setInterval(m, "break")

startTimer(m, random) ==
    IF m.state.isTimerRunning THEN m
    ELSE LET m1 == [m EXCEPT !.state.isTimerRunning = TRUE,
                             !.state.nextBreakScene = random]
             m2 == IF m1.isWindowFocused THEN _startTimerInterval(m1) ELSE m1
         IN  _updateWebview(saveState(m2))

\* mutant: stop also clears the seconds of the session
stopTimer_ClearsSeconds(m) ==
    LET m1 == [m EXCEPT !.state.isTimerRunning = FALSE,
                        !.state.currentSessionSeconds = 0]
    IN  _updateWebview(saveState(_stopTimerInterval(m1)))

\* mutant: stop clears the flag and leaves the interval ticking
stopTimer_KeepsInterval(m) ==
    LET m1 == [m EXCEPT !.state.isTimerRunning = FALSE]
    IN  _updateWebview(saveState(m1))

stopTimer(m) ==
    LET m1 == [m EXCEPT !.state.isTimerRunning = FALSE]
    IN  _updateWebview(saveState(_stopTimerInterval(m1)))

\* mutant: reset also ends the break
resetTimer_EndsBreak(m) ==
    LET m1 == [m EXCEPT !.state.currentSessionSeconds = 0,
                        !.state.isTimerRunning = FALSE,
                        !.state.isOnBreak = FALSE,
                        !.state.breakSecondsRemaining = 0]
    IN  _updateWebview(saveState(_stopTimerInterval(m1)))

resetTimer(m) ==
    LET m1 == [m EXCEPT !.state.currentSessionSeconds = 0,
                        !.state.isTimerRunning = FALSE]
    IN  _updateWebview(saveState(_stopTimerInterval(m1)))

\* mutant: the count of before the increment decides
isLongBreak_BeforeIncrement(completedSessions, sessionsBeforeLongBreak) ==
    (completedSessions - 1) % sessionsBeforeLongBreak = 0

isLongBreak(completedSessions, sessionsBeforeLongBreak) ==
    completedSessions % sessionsBeforeLongBreak = 0

\* mutant: any progress counts as a complete session
sessionComplete_AnyProgress(m) == m.state.currentSessionSeconds > 0

\* the condition under which harvestFruit acts
sessionComplete(m) ==
    m.state.currentSessionSeconds >= _getPomodoroDurationSeconds(m)

\* mutant: the harvest notification is shown whatever showNotifications is
harvestFruit_AlwaysNotifies(m) ==
    IF sessionComplete(m)
    THEN LET m1 == [m EXCEPT !.state.fruitsCollected = @ + 1,
                             !.state.completedSessions = @ + 1,
                             !.state.currentSessionSeconds = 0,
                             !.state.isTimerRunning = FALSE]
             m2 == _stopTimerInterval(m1)
             s == getSettings(m2)
             long == isLongBreak(m2.state.completedSessions, s.sessionsBeforeLongBreak)
             m3 == [m2 EXCEPT !.state.isOnBreak = TRUE,
                              !.state.breakSecondsRemaining =
                                  TimesSixty(IF long THEN s.longBreakDuration
                                                     ELSE s.shortBreakDuration),
                              !.state.currentBreakScene = m2.state.nextBreakScene]
             m4 == _startBreakTimer(_updateWebview(saveState(m3)))
         IN  showInformationMessage(m4, IF long THEN "harvested:long"
                                                ELSE "harvested:short")
    ELSE m

\* mutant: harvest leaves the work interval running
harvestFruit_LeavesTick(m) ==
    IF sessionComplete(m)
    THEN LET m1 == [m EXCEPT !.state.fruitsCollected = @ + 1,
                             !.state.completedSessions = @ + 1,
                             !.state.currentSessionSeconds = 0,
                             !.state.isTimerRunning = FALSE]
             s == getSettings(m1)
             long == isLongBreak(m1.state.completedSessions, s.sessionsBeforeLongBreak)
             m3 == [m1 EXCEPT !.state.isOnBreak = TRUE,
                              !.state.breakSecondsRemaining =
                                  TimesSixty(IF long THEN s.longBreakDuration
                                                     ELSE s.shortBreakDuration),
                              !.state.currentBreakScene = m1.state.nextBreakScene]
             m4 == _startBreakTimer(_updateWebview(saveState(m3)))
         IN  IF s.showNotifications
             THEN showInformationMessage(m4, IF long THEN "harvested:long"
                                                     ELSE "harvested:short")
             ELSE m4
    ELSE m

harvestFruit(m) ==
    IF sessionComplete(m)
    THEN LET m1 == [m EXCEPT !.state.fruitsCollected = @ + 1,
                             !.state.completedSessions = @ + 1,
                             !.state.currentSessionSeconds = 0,
                             !.state.isTimerRunning = FALSE]
             m2 == _stopTimerInterval(m1)
             s == getSettings(m2)
             long == isLongBreak(m2.state.completedSessions, s.sessionsBeforeLongBreak)
             m3 == [m2 EXCEPT !.state.isOnBreak = TRUE,
                              !.state.breakSecondsRemaining =
                                  TimesSixty(IF long THEN s.longBreakDuration
                                                     ELSE s.shortBreakDuration),
                              !.state.currentBreakScene = m2.state.nextBreakScene]
             m4 == _startBreakTimer(_updateWebview(saveState(m3)))
         IN  IF s.showNotifications
             THEN showInformationMessage(m4, IF long THEN "harvested:long"
                                                     ELSE "harvested:short")
             ELSE m4
    ELSE m

\* mutant: the countdown is left as it was
skipBreak_KeepsCountdown(m) ==
    LET m1 == [m EXCEPT !.state.isOnBreak = FALSE]
    IN  _updateWebview(saveState(_stopTimerInterval(m1)))

skipBreak(m) ==
    LET m1 == [m EXCEPT !.state.isOnBreak = FALSE,
                        !.state.breakSecondsRemaining = 0]
    IN  _updateWebview(saveState(_stopTimerInterval(m1)))

\* mutant: the chosen scene is not saved
changeBreakScene_Unsaved(m, scene) == [m EXCEPT !.state.nextBreakScene = scene]

\* mutant: the scene shown is changed too
changeBreakScene_AlsoCurrent(m, scene) ==
    saveState([m EXCEPT !.state.nextBreakScene = scene,
                        !.state.currentBreakScene = scene])

changeBreakScene(m, scene) ==
    saveState([m EXCEPT !.state.nextBreakScene = scene])

\* mutant: a complete session is auto-started too
handleWindowFocusChange_StartsComplete(m, focused, random) ==
    LET m1 == [m EXCEPT !.isWindowFocused = focused]
        m2 == IF m1.state.isTimerRunning
              THEN IF focused THEN _startTimerInterval(m1)
                              ELSE _stopTimerInterval(m1)
              ELSE IF focused /\ getSettings(m1).autoStartOnFocus
                   THEN startTimer(m1, random)
                   ELSE m1
    IN  _updateWebview(m2)

\* mutant: losing the focus leaves the interval running
handleWindowFocusChange_KeepsTicking(m, focused, random) ==
    LET m1 == [m EXCEPT !.isWindowFocused = focused]
        m2 == IF m1.state.isTimerRunning
              THEN IF focused THEN _startTimerInterval(m1) ELSE m1
              ELSE IF /\ focused
                      /\ getSettings(m1).autoStartOnFocus
                      /\ m1.state.currentSessionSeconds < _getPomodoroDurationSeconds(m1)
                   THEN startTimer(m1, random)
                   ELSE m1
    IN  _updateWebview(m2)

handleWindowFocusChange(m, focused, random) ==
    LET m1 == [m EXCEPT !.isWindowFocused = focused]
        m2 == IF m1.state.isTimerRunning
              THEN IF focused THEN _startTimerInterval(m1)
                              ELSE _stopTimerInterval(m1)
              ELSE IF /\ focused
                      /\ getSettings(m1).autoStartOnFocus
                      /\ m1.state.currentSessionSeconds < _getPomodoroDurationSeconds(m1)
                   THEN startTimer(m1, random)
                   ELSE m1
    IN  _updateWebview(m2)

\* mutant: a configuration change clears the interval held
reloadSettings_StopsTimer(m) == _updateWebview(_stopTimerInterval(m))

reloadSettings(m) == _updateWebview(m)

\* mutant: resolving the view does not arm the work interval
resolveWebviewView_NoArm(m) == _updateWebview([m EXCEPT !.view = TRUE])

resolveWebviewView(m) ==
    LET m1 == [m EXCEPT !.view = TRUE]
        m2 == IF m1.state.isTimerRunning /\ m1.isWindowFocused
              THEN _startTimerInterval(m1) ELSE m1
    IN  _updateWebview(m2)

----------------------------------------------------------------------------
(* The specifications: one action per host event *)

\* The history of scene choices, kept only by the specifications that start
\* with it on.  <<>>: no scene was chosen since the last successful harvest.
\* <<scene, redrawn, applied>>: `scene` was the last one chosen; redrawn = 1
\* when a start that found the timer not running came after the choice;
\* applied = 1 in the state right after the successful harvest that followed.
Untracked == <<-1>>

ChoicePending == Len(chosen) = 3 /\ chosen[3] = 0

Chosen(m, op) ==
    IF chosen = Untracked THEN chosen
    ELSE IF op = "changeBreakScene" THEN <<m.state.nextBreakScene, 0, 0>>
    ELSE IF ~ChoicePending THEN <<>>
    ELSE IF op = "harvest" /\ sessionComplete(Machine) THEN [chosen EXCEPT ![3] = 1]
    ELSE IF ~Machine.state.isTimerRunning /\ m.state.isTimerRunning
         THEN [chosen EXCEPT ![2] = 1]
    ELSE chosen

\* The history of the session since the window lost focus, kept only by the
\* specifications that start with it on.  <<>>: the window has focus, or a
\* reset or harvest came since it lost it.  <<seconds, running, commanded>>:
\* currentSessionSeconds and isTimerRunning (1 for true) when the window lost
\* focus; commanded = 1 when a start or stop came since.
AtLoss(m, op) ==
    IF atLoss = Untracked THEN atLoss
    ELSE IF op = "focusChanged"
         THEN IF m.isWindowFocused THEN <<>>
              ELSE IF Machine.isWindowFocused
                   THEN <<Machine.state.currentSessionSeconds,
                          IF Machine.state.isTimerRunning THEN 1 ELSE 0, 0>>
                   ELSE atLoss
    ELSE IF op \in {"reset", "harvest", "activate"} \/ atLoss = <<>> THEN <<>>
    ELSE IF op \in {"start", "stop"} THEN [atLoss EXCEPT ![3] = 1]
    ELSE atLoss

\* The history of the session's 'plant is ready' messages, kept only by the
\* specifications that start with it on.  <<n>>: the work callback has shown
\* the message n times (counted up to MaxReady) since the last reset or
\* successful harvest.
Ready(m, op) ==
    IF ready = Untracked THEN ready
    ELSE IF op = "reset" \/ (op = "harvest" /\ sessionComplete(Machine)) THEN <<0>>
    ELSE IF op = "workTick" /\ m.shown = <<"sessionReady">> /\ ready[1] < MaxReady
         THEN <<ready[1] + 1>>
    ELSE ready

Commit(m, op) ==
    /\ _state' = m.state
    /\ _timerInterval' = m.timerInterval
    /\ _isWindowFocused' = m.isWindowFocused
    /\ _view' = m.view
    /\ intervals' = m.intervals
    /\ globalState' = m.globalState
    /\ settings' = m.settings
    /\ today' = m.today
    /\ posted' = m.posted
    /\ shown' = m.shown
    /\ lastOp' = op
    /\ chosen' = Chosen(m, op)
    /\ atLoss' = AtLoss(m, op)
    /\ ready' = Ready(m, op)

\* extension.ts activate() builds the provider, with `stored` in globalState
\* and configuration s
Activated(s, stored, random, history, focusHistory, readyHistory) ==
    LET m == constructor([state |-> <<>>, timerInterval |-> "none",
                          isWindowFocused |-> TRUE, view |-> FALSE,
                          intervals |-> NoIntervals, globalState |-> stored,
                          settings |-> s, today |-> 0, posted |-> <<>>,
                          shown |-> <<>>], random)
    IN  /\ _state = m.state
        /\ _timerInterval = m.timerInterval
        /\ _isWindowFocused = m.isWindowFocused
        /\ _view = m.view
        /\ intervals = m.intervals
        /\ globalState = m.globalState
        /\ settings = m.settings
        /\ today = m.today
        /\ posted = m.posted
        /\ shown = m.shown
        /\ lastOp = "activate"
        /\ chosen = history
        /\ atLoss = focusHistory
        /\ ready = readyHistory

\* the extension host is started again: activate() builds a new provider
Activate ==
    \E random \in RandomScenes : Commit(constructor(Machine, random), "activate")

\* Math.random() is drawn only where the statement that calls it is run
Draws(run) == IF run THEN RandomScenes ELSE {0}

\* command pomodoroPlants.startTimer, webview message 'start'
OnStart ==
    \E random \in Draws(~_state.isTimerRunning) :
        Commit(startTimer(Machine, random), "start")

\* command pomodoroPlants.stopTimer, webview message 'stop'
OnStop == Commit(stopTimer(Machine), "stop")

\* command pomodoroPlants.resetTimer, webview message 'reset'
OnReset == Commit(resetTimer(Machine), "reset")

\* command pomodoroPlants.harvestFruit, webview message 'harvest'
OnHarvest ==
    /\ sessionComplete(Machine) => _state.completedSessions < MaxCompleted
    /\ Commit(harvestFruit(Machine), "harvest")

\* webview message 'skipBreak'
OnSkipBreak ==
    /\ _view
    /\ Commit(skipBreak(Machine), "skipBreak")

\* webview message 'changeBreakScene': the script sends an index of breakSceneNames
OnChangeBreakScene ==
    /\ _view
    /\ \E scene \in RandomScenes :
          Commit(changeBreakScene(Machine, scene), "changeBreakScene")

\* webview message 'changeBreakScene' carrying any number, as the handler
\* accepts it: an index of breakSceneNames, or one below or above them
MessageScenes == -1 .. Len(BREAK_SCENES)

OnChangeBreakSceneAny ==
    /\ _view
    /\ \E scene \in MessageScenes :
          Commit(changeBreakScene(Machine, scene), "changeBreakScene")

\* webview message 'ready'
OnReady ==
    /\ _view
    /\ Commit(_updateWebview(Machine), "ready")

\* window.onDidChangeWindowState
OnWindowState ==
    \E focused \in BOOLEAN :
        \E random \in Draws(focused /\ ~_state.isTimerRunning) :
            Commit(handleWindowFocusChange(Machine, focused, random), "focusChanged")

\* the host resolves the garden view
OnResolveView == Commit(resolveWebviewView(Machine), "resolveView")

\* a live work interval fires
WorkTick ==
    /\ intervals.work > 0
    /\ Commit(workCallback(Machine), "workTick")

\* a live break interval fires
BreakTick ==
    /\ intervals.break > 0
    /\ Commit(breakCallback(Machine), "breakTick")

\* workspace.onDidChangeConfiguration after the user has set the
\* configuration to another member of domain
OnConfiguration(domain) ==
    \E s \in domain :
        /\ s # settings
        /\ Commit(reloadSettings([Machine EXCEPT !.settings = s]), "settingsChanged")

OnSessionSettings == OnConfiguration(SessionSettings)

OnBreakSettings == OnConfiguration(BreakSettings)

OnNotifySettings == OnConfiguration(NotifySettings)

OnFocusSettings == OnConfiguration(FocusSettings)

\* the wall clock passes midnight
Midnight ==
    /\ today < MaxDay
    /\ Commit([Machine EXCEPT !.today = @ + 1], "midnight")

\* The controller in a fresh profile, under every command, message, window
\* state change and tick, while the session length and auto-start are changed
Init ==
    \E s \in SessionSettings, random \in RandomScenes : Activated(s, <<>>, random, Untracked, Untracked, Untracked)

Controller ==
    \/ OnStart
    \/ OnStop
    \/ OnReset
    \/ OnHarvest
    \/ OnSkipBreak
    \/ OnChangeBreakScene
    \/ OnReady
    \/ OnWindowState
    \/ OnResolveView
    \/ WorkTick
    \/ BreakTick

Next ==
    \/ Controller
    \/ OnSessionSettings

Spec == Init /\ [][Next]_vars

\* The controller in a fresh profile with the base configuration, across
\* restarts of the extension host and midnights
InitRestart ==
    \E random \in RandomScenes : Activated(BaseSettings, <<>>, random, Untracked, Untracked, Untracked)

NextRestart ==
    \/ Controller
    \/ Activate
    \/ Midnight

SpecRestart == InitRestart /\ [][NextRestart]_vars

\* The controller in a fresh profile with the base configuration, across
\* restarts of the extension host, with the history of scene choices kept
InitScene ==
    \E random \in RandomScenes : Activated(BaseSettings, <<>>, random, <<>>, Untracked, Untracked)

NextScene ==
    \/ Controller
    \/ Activate

SpecScene == InitScene /\ [][NextScene]_vars

\* The controller in a fresh profile, while the break lengths and
\* sessionsBeforeLongBreak are changed
InitBreaks ==
    \E s \in BreakSettings, random \in RandomScenes :
        Activated(s, <<>>, random, Untracked, Untracked, Untracked)

NextBreaks ==
    \/ Controller
    \/ OnBreakSettings

SpecBreaks == InitBreaks /\ [][NextBreaks]_vars

\* The controller in a fresh profile, while showNotifications is switched
\* off and on
InitNotify ==
    \E s \in NotifySettings, random \in RandomScenes :
        Activated(s, <<>>, random, Untracked, Untracked, Untracked)

NextNotify ==
    \/ Controller
    \/ OnNotifySettings

SpecNotify == InitNotify /\ [][NextNotify]_vars

\* The controller in a fresh profile, with a session long enough to pass
\* through every stage
InitStage ==
    \E random \in RandomScenes : Activated(StageSettings, <<>>, random, Untracked, Untracked, Untracked)

SpecStage == InitStage /\ [][Controller]_vars

\* The controller in a fresh profile, while auto-start is switched on and
\* off, with the history since the window lost focus kept
InitFocus ==
    \E s \in FocusSettings, random \in RandomScenes :
        Activated(s, <<>>, random, Untracked, <<>>, Untracked)

NextFocus ==
    \/ Controller
    \/ OnFocusSettings

SpecFocus == InitFocus /\ [][NextFocus]_vars

\* The controller in a fresh profile, with a user who leaves after the first
\* successful harvest: from then on only the live intervals fire, and they do
\* fire (the host runs a live interval's callback every second)
UserAway == _state.completedSessions > 0

UserPresent ==
    /\ ~UserAway
    /\ (Controller \/ OnNotifySettings)

UnattendedBreakTick ==
    /\ UserAway
    /\ BreakTick

InitQuiet ==
    \E s \in NotifySettings, random \in RandomScenes :
        Activated(s, <<>>, random, Untracked, Untracked, Untracked)

NextQuiet ==
    \/ UserPresent
    \/ UnattendedBreakTick

SpecQuiet == InitQuiet /\ [][NextQuiet]_vars /\ WF_vars(UnattendedBreakTick)

\* The controller in a fresh profile with the base configuration, when the
\* 'changeBreakScene' message may carry any number
InitAnyScene ==
    \E random \in RandomScenes :
        Activated(BaseSettings, <<>>, random, Untracked, Untracked, Untracked)

NextAnyScene ==
    \/ Controller
    \/ OnChangeBreakSceneAny

SpecAnyScene == InitAnyScene /\ [][NextAnyScene]_vars

\* The stored records explored for _loadState: nothing stored, or a record
\* in which each of the nine fields is absent (choice 0), has its zero value
\* (choice 1) or has another value of its type (choice 2)
StoredValue(f, choice) ==
    IF f \in {"isTimerRunning", "isOnBreak"} THEN choice = 2
    ELSE IF f \in {"currentBreakScene", "nextBreakScene"} THEN 2 * (choice - 1)
    ELSE choice - 1

StoredRecord(choices) ==
    [f \in {g \in GardenFields : choices[g] # 0} |-> StoredValue(f, choices[f])]

StoredRecords == {StoredRecord(choices) : choices \in [GardenFields -> 0 .. 2]}

\* The constructor at its call of _loadState: _state is not assigned yet
InitLoad ==
    /\ _state = <<>>
    /\ _timerInterval = "none"
    /\ _isWindowFocused = TRUE
    /\ _view = FALSE
    /\ intervals = NoIntervals
    /\ globalState \in {<<>>} \cup {<<stored>> : stored \in StoredRecords}
    /\ settings = BaseSettings
    /\ today = 0
    /\ posted = <<>>
    /\ shown = <<>>
    /\ lastOp = "construct"
    /\ chosen = Untracked
    /\ atLoss = Untracked
    /\ ready = Untracked

\* this._state = this._loadState()
LoadState ==
    /\ lastOp = "construct"
    /\ \E random \in Draws(globalState = <<>> \/ ~Has(globalState[1], "nextBreakScene")) :
          Commit([Machine EXCEPT !.state = _loadState(Machine, random)], "loadState")

SpecLoad == InitLoad /\ [][LoadState]_vars

----------------------------------------------------------------------------
(* Properties *)

durationSeconds == _getPomodoroDurationSeconds(Machine)

\* a step of harvest in a state where the session is complete
Harvested ==
    /\ lastOp' = "harvest"
    /\ _state.currentSessionSeconds >= durationSeconds

\* C1 (as claimed): at most one of isTimerRunning and isOnBreak is true in
\* every reachable state.
C1_RunningExcludesBreak == ~(_state.isTimerRunning /\ _state.isOnBreak)

\* C2 (as claimed): in every reachable state currentSessionSeconds is at most
\* pomodoroDuration * 60 under the settings current in that state.
C2_ElapsedWithinDuration == _state.currentSessionSeconds <= durationSeconds

\* C3: in every reachable state a nonzero breakSecondsRemaining implies
\* isOnBreak, across commands, ticks and restarts with a daily reset.
C3_CountdownOnlyOnBreak == _state.breakSecondsRemaining > 0 => _state.isOnBreak

C3_Witness ==
    /\ lastOp = "activate"
    /\ _state.breakSecondsRemaining > 0
    /\ _state.isOnBreak
    /\ _state.lastResetDate = MaxDay

\* C4: harvest with currentSessionSeconds < durationSeconds changes no
\* GardenState field, leaves the timer handle and the live timers as they
\* are, writes nothing and shows no notification.
C4_IneligibleHarvestIsNoOp ==
    [][(lastOp' = "harvest" /\ _state.currentSessionSeconds < durationSeconds)
        => /\ UNCHANGED <<_state, _timerInterval, intervals, globalState, posted>>
           /\ shown' = <<>>]_vars

C4_Witness ==
    /\ lastOp = "harvest"
    /\ _state.currentSessionSeconds > 0
    /\ _state.currentSessionSeconds < durationSeconds
    /\ _state.isTimerRunning
    /\ intervals.work = 1

\* C5: harvest with currentSessionSeconds >= durationSeconds adds exactly one
\* to fruitsCollected and to completedSessions, zeroes currentSessionSeconds,
\* clears isTimerRunning, sets isOnBreak, and leaves exactly one live timer,
\* the break tick, held by the provider.
C5_HarvestEffects ==
    [][Harvested
        => /\ _state'.fruitsCollected = _state.fruitsCollected + 1
           /\ _state'.completedSessions = _state.completedSessions + 1
           /\ _state'.currentSessionSeconds = 0
           /\ _state'.isTimerRunning = FALSE
           /\ _state'.isOnBreak = TRUE
           /\ _timerInterval' = "break"
           /\ intervals' = [work |-> 0, break |-> 1]]_vars

C5_Witness ==
    /\ lastOp = "harvest"
    /\ _state.isOnBreak
    /\ _state.fruitsCollected = MaxCompleted
    /\ _state.completedSessions = MaxCompleted
    /\ _timerInterval = "break"

\* C6: a successful harvest sets breakSecondsRemaining to
\* longBreakDuration * 60 when completedSessions after the increment is a
\* multiple of sessionsBeforeLongBreak, and to shortBreakDuration * 60 when it
\* is not.
C6_BreakLength ==
    [][Harvested
        => LET multiple == \E k \in 1 .. (_state.completedSessions + 1) :
                              k * settings.sessionsBeforeLongBreak
                                  = _state.completedSessions + 1
           IN  /\ multiple
                    => _state'.breakSecondsRemaining = TimesSixty(settings.longBreakDuration)
               /\ ~multiple
                    => _state'.breakSecondsRemaining = TimesSixty(settings.shortBreakDuration)]_vars

C6_Witness ==
    /\ lastOp = "harvest"
    /\ settings.sessionsBeforeLongBreak = 2
    /\ settings.shortBreakDuration = 1
    /\ settings.longBreakDuration = 2
    /\ _state.completedSessions = 2
    /\ _state.breakSecondsRemaining = 2

\* C7: a successful harvest sets currentBreakScene to the nextBreakScene of
\* before the call and leaves nextBreakScene as it is; every other step
\* leaves currentBreakScene as it is.
C7_SceneAppliedOnlyByHarvest ==
    [][IF Harvested
       THEN /\ _state'.currentBreakScene = _state.nextBreakScene
            /\ _state'.nextBreakScene = _state.nextBreakScene
       ELSE _state'.currentBreakScene = _state.currentBreakScene]_vars

C7_Witness ==
    /\ lastOp = "harvest"
    /\ _state.isOnBreak
    /\ _state.currentBreakScene = 3
    /\ _state.nextBreakScene = 3
    /\ _state.completedSessions = MaxCompleted

\* C8 (as claimed): a successful harvest applies the scene of the last
\* selectNextBreakScene since the harvest before, whatever start, stop, reset,
\* focus change or tick happened in between.
C8_ChosenSceneApplied ==
    [][(Harvested /\ ChoicePending) => _state'.currentBreakScene = chosen[1]]_vars

\* C8 (amended): a successful harvest applies the scene of the last
\* selectNextBreakScene since the harvest before, provided no start that found
\* the timer not running (the command, the message or an auto-start on focus,
\* each of which re-draws nextBreakScene) came after that choice.
C8_ChosenSceneAppliedUnlessRedrawn ==
    [][(Harvested /\ ChoicePending /\ chosen[2] = 0)
        => _state'.currentBreakScene = chosen[1]]_vars

C8_Witness ==
    /\ lastOp = "harvest"
    /\ Len(chosen) = 3
    /\ chosen = <<2, 0, 1>>
    /\ _state.currentBreakScene = 2
    /\ _state.isOnBreak

\* C9: skipBreak leaves isOnBreak false, breakSecondsRemaining zero and no
\* break tick live or held, whatever the countdown was; a later harvest sets
\* the countdown to a configured break length, with nothing carried over.
C9_SkipBreakClears ==
    [][/\ lastOp' = "skipBreak"
          => /\ _state'.isOnBreak = FALSE
             /\ _state'.breakSecondsRemaining = 0
             /\ _timerInterval' = "none"
             /\ intervals'.break = 0
       /\ Harvested
          => _state'.breakSecondsRemaining \in
                {TimesSixty(settings.shortBreakDuration),
                 TimesSixty(settings.longBreakDuration)}]_vars

C9_Witness ==
    /\ lastOp = "skipBreak"
    /\ _state.completedSessions = 1
    /\ _state.isTimerRunning
    /\ ~_state.isOnBreak
    /\ _state.breakSecondsRemaining = 0
    /\ intervals = NoIntervals

\* C10: start while isTimerRunning changes no GardenState field, no timer and
\* nothing stored; at most one timer is live in every reachable state, so a
\* one-second pulse runs one callback, which adds at most one second.
C10_StartIdempotent ==
    /\ [](intervals.work + intervals.break <= 1)
    /\ [][/\ (lastOp' = "start" /\ _state.isTimerRunning)
             => UNCHANGED <<_state, _timerInterval, intervals, globalState>>
          /\ lastOp' = "workTick"
             => _state'.currentSessionSeconds - _state.currentSessionSeconds \in {0, 1}]_vars

C10_Witness ==
    /\ lastOp = "start"
    /\ _state.isTimerRunning
    /\ intervals.work = 1
    /\ posted # <<>>
    /\ ~posted[1].isOnBreak
    /\ posted[1].nextBreakScene # SceneName(_state.nextBreakScene)

\* a step of start in a state where the timer is not running
Started ==
    /\ lastOp' = "start"
    /\ ~_state.isTimerRunning

\* C11 (as claimed): start() in a state with isTimerRunning = false sets
\* isTimerRunning, sets nextBreakScene to a value in 0..3, changes no other
\* GardenState field, and afterwards the work tick is armed if and only if
\* the window has focus.
C11_StartArmsIffFocused ==
    [][Started =>
          /\ _state'.nextBreakScene \in RandomScenes
          /\ _state' = [_state EXCEPT !.isTimerRunning = TRUE,
                                      !.nextBreakScene = _state'.nextBreakScene]
          /\ (intervals'.work = 1 /\ _timerInterval' = "work") <=> _isWindowFocused]_vars

\* a step of the work interval's callback
WorkTicked == lastOp' = "workTick"

\* C12 (as claimed): a work tick below the session length adds one to
\* currentSessionSeconds and leaves isTimerRunning true and the interval armed,
\* also when the sum is the session length; a work tick at or above the
\* session length changes no counter, clears the interval, sets
\* isTimerRunning = false and shows the "plant is ready" notification.
C12_WorkTickNotifies ==
    [][WorkTicked =>
          IF _state.currentSessionSeconds < durationSeconds
          THEN /\ _state' = [_state EXCEPT !.currentSessionSeconds = @ + 1]
               /\ _state'.isTimerRunning
               /\ _timerInterval' = "work" /\ intervals' = intervals
               /\ shown' = <<>>
          ELSE /\ _state' = [_state EXCEPT !.isTimerRunning = FALSE]
               /\ _timerInterval' = "none" /\ intervals'.work = 0
               /\ shown' = <<"sessionReady">>]_vars

\* C12 (amended): as claimed, but the notification is shown exactly when
\* showNotifications is true.
C12_WorkTick ==
    [][WorkTicked =>
          IF _state.currentSessionSeconds < durationSeconds
          THEN /\ _state' = [_state EXCEPT !.currentSessionSeconds = @ + 1]
               /\ _state'.isTimerRunning
               /\ _timerInterval' = "work" /\ intervals' = intervals
               /\ shown' = <<>>
          ELSE /\ _state' = [_state EXCEPT !.isTimerRunning = FALSE]
               /\ _timerInterval' = "none" /\ intervals'.work = 0
               /\ shown' = IF settings.showNotifications
                           THEN <<"sessionReady">> ELSE <<>>]_vars

\* the tick that found the session complete has stopped the timer, silently
\* because showNotifications is false
C12_Witness ==
    /\ lastOp = "workTick"
    /\ _state.currentSessionSeconds >= durationSeconds
    /\ ~_state.isTimerRunning
    /\ intervals.work = 0
    /\ ~settings.showNotifications
    /\ shown = <<>>

\* a step of the work interval's callback that raises currentSessionSeconds
\* from durationSeconds - 1 to durationSeconds
ReachedLength ==
    /\ WorkTicked
    /\ _state.currentSessionSeconds = durationSeconds - 1

\* the view shows the garden, not a break
GardenShown == _view /\ ~_state.isOnBreak

\* C13 (as claimed): right after the tick that raises currentSessionSeconds
\* from durationSeconds - 1 to durationSeconds the interval is cleared and the
\* projection has canHarvest = true; before that tick the projection has stage
\* 'fruiting' and canHarvest = false.
C13_ReachingTickDisarms ==
    [][ReachedLength =>
          /\ _state'.currentSessionSeconds = durationSeconds
          /\ _timerInterval' = "none" /\ intervals'.work = 0
          /\ GardenShown =>
                /\ posted[1].stage = "fruiting" /\ ~posted[1].canHarvest
                /\ posted'[1].canHarvest]_vars

\* C13 (amended): right after that tick the interval is still armed and
\* isTimerRunning is still true (the next tick clears it), and the projection
\* of the garden has canHarvest = true; before that tick it has stage
\* 'fruiting' and canHarvest = false, for a session of at least ten seconds.
C13_ReachingTick ==
    [][ReachedLength =>
          /\ _state'.currentSessionSeconds = durationSeconds
          /\ _state'.isTimerRunning
          /\ _timerInterval' = "work" /\ intervals' = intervals
          /\ GardenShown =>
                /\ posted[1].stage = "fruiting" /\ ~posted[1].canHarvest
                /\ posted'[1].canHarvest]_vars

\* the tick has raised currentSessionSeconds to durationSeconds: the garden
\* shows canHarvest and the interval is still armed
C13_Witness ==
    /\ lastOp = "workTick"
    /\ _state.currentSessionSeconds = durationSeconds
    /\ _state.isTimerRunning
    /\ intervals.work = 1
    /\ GardenShown
    /\ posted[1].canHarvest
    /\ posted[1].stage = "fruiting"

\* a window state change gives the focus back after the window had lost it,
\* and no reset or harvest came in between
Regained ==
    /\ lastOp' = "focusChanged"
    /\ ~_isWindowFocused
    /\ _isWindowFocused'
    /\ Len(atLoss) = 3

BreakTicked == lastOp' = "breakTick"

\* C15 (as claimed): every break tick takes one second off
\* breakSecondsRemaining down to 0, and the tick at zero clears the interval,
\* sets isOnBreak = false and shows the "Break over" notification.
C15_BreakEndNotifies ==
    [][BreakTicked =>
          IF _state.breakSecondsRemaining > 0
          THEN /\ _state' = [_state EXCEPT !.breakSecondsRemaining = @ - 1]
               /\ _timerInterval' = "break" /\ intervals' = intervals
               /\ shown' = <<>>
          ELSE /\ _state' = [_state EXCEPT !.isOnBreak = FALSE]
               /\ _timerInterval' = "none" /\ intervals'.break = 0
               /\ shown' = <<"breakOver">>]_vars

\* C15 (amended): with the user away and the interval firing, a break started
\* by harvest ends; every break tick takes one second off
\* breakSecondsRemaining down to 0, and the tick after that clears the
\* interval, sets isOnBreak = false and shows the "Break over" notification
\* when showNotifications is true; no break interval is live afterwards, so it
\* is shown at most once.
C15_BreakRunsOut ==
    /\ [][BreakTicked =>
             IF _state.breakSecondsRemaining > 0
             THEN /\ _state' = [_state EXCEPT !.breakSecondsRemaining = @ - 1]
                  /\ _timerInterval' = "break" /\ intervals' = intervals
                  /\ shown' = <<>>
             ELSE /\ _state' = [_state EXCEPT !.isOnBreak = FALSE]
                  /\ _timerInterval' = "none" /\ intervals'.break = 0
                  /\ shown' = IF settings.showNotifications
                              THEN <<"breakOver">> ELSE <<>>]_vars
    /\ [](~_state.isOnBreak => intervals.break = 0)
    /\ (_state.isOnBreak ~> (~_state.isOnBreak /\ _state.breakSecondsRemaining = 0))

\* the unattended break has run out, silently because showNotifications is false
C15_Witness ==
    /\ lastOp = "breakTick"
    /\ UserAway
    /\ ~_state.isOnBreak
    /\ _state.breakSecondsRemaining = 0
    /\ _timerInterval = "none"
    /\ ~settings.showNotifications
    /\ shown = <<>>

\* the host resolves the garden view of a provider just built by a new process
ViewOfNewProcess ==
    /\ lastOp = "activate"
    /\ lastOp' = "resolveView"

\* C16 (as claimed): a process started during a break with seconds remaining
\* carries the countdown on: the break interval is armed again, at the latest
\* when the view of the new provider is resolved.
C16_BreakResumesAfterRestart ==
    [][(ViewOfNewProcess /\ _state.isOnBreak /\ _state.breakSecondsRemaining > 0)
          => (intervals'.break = 1 /\ _timerInterval' = "break")]_vars

\* a new process is started on the day of the stored record while the timer
\* is running
RestartedRunning ==
    /\ lastOp' = "activate"
    /\ _state.isTimerRunning
    /\ globalState # <<>>
    /\ globalState[1].lastResetDate = today

\* C17: a process started on the same day while isTimerRunning is true has
\* the persisted currentSessionSeconds and isTimerRunning still true, and when
\* its view is resolved with the window focused the work interval is armed
\* with currentSessionSeconds as it was, so that the ticks go on from it.
C17_SessionResumesAfterRestart ==
    /\ [][RestartedRunning =>
             /\ _state'.currentSessionSeconds = globalState[1].currentSessionSeconds
             /\ _state'.isTimerRunning
             /\ _isWindowFocused']_vars
    /\ [][(ViewOfNewProcess /\ _state.isTimerRunning /\ _isWindowFocused) =>
             /\ intervals'.work = 1 /\ _timerInterval' = "work"
             /\ _state' = _state]_vars

\* a new process has been started while a session that had advanced was
\* running: the seconds are those persisted, no interval is live yet
C17_Witness ==
    /\ lastOp = "activate"
    /\ _state.isTimerRunning
    /\ _state.currentSessionSeconds = 1
    /\ globalState = <<_state>>
    /\ _state.lastResetDate = today
    /\ _isWindowFocused
    /\ _timerInterval = "none"

\* C18: the stored record, once there is one, is _state field by field after
\* every event; every event that changes _state leaves it stored (a new
\* process in a profile with nothing stored builds its defaults and stores
\* nothing); and a new process started on the day of the record has the
\* _state the old one had.
C18_StoredIsState ==
    /\ [](globalState # <<>> =>
             /\ DOMAIN globalState[1] = GardenFields
             /\ \A f \in GardenFields : globalState[1][f] = _state[f])
    /\ [][_state' # _state =>
             \/ globalState' = <<_state'>>
             \/ lastOp' = "activate" /\ globalState = <<>>]_vars
    /\ [][(lastOp' = "activate" /\ globalState # <<>> /\ _state.lastResetDate = today)
             => _state' = _state]_vars

\* a scene has been chosen for the next break and the stored record has it
C18_Witness ==
    /\ lastOp = "changeBreakScene"
    /\ _state.nextBreakScene = 3
    /\ _state.isTimerRunning
    /\ globalState # <<>>
    /\ globalState[1].nextBreakScene = 3
    /\ globalState[1].isTimerRunning

\* the message _updateWebview computes from the state after the step
ProjectionOfNewState ==
    _updateWebview([Machine EXCEPT !.state = _state',
                                   !.isWindowFocused = _isWindowFocused',
                                   !.settings = settings',
                                   !.view = TRUE]).posted

\* C19 (as claimed): every event that changes a field of _state while a view
\* is attached leaves the view with the projection of the new state.
C19_ProjectionAfterMutation ==
    [][(_state' # _state /\ _view') => posted' = ProjectionOfNewState]_vars

\* a new process loads a stored record
Loaded ==
    /\ lastOp' = "activate"
    /\ globalState # <<>>

\* C20: a load resets the day exactly when the stored lastResetDate is not
\* today: then fruitsCollected = 0, currentSessionSeconds = 0, isTimerRunning
\* = false and lastResetDate = today, all other fields (completedSessions
\* among them) as stored, and the record is stored again; otherwise _state is
\* the stored record and the stored record is left as it is.
C20_DailyResetAtLoad ==
    [][Loaded =>
          LET stored == globalState[1]
          IN  IF stored.lastResetDate # today
              THEN /\ _state' = [stored EXCEPT !.fruitsCollected = 0,
                                               !.currentSessionSeconds = 0,
                                               !.isTimerRunning = FALSE,
                                               !.lastResetDate = today]
                   /\ _state'.completedSessions = stored.completedSessions
                   /\ globalState' = <<_state'>>
              ELSE /\ _state' = stored
                   /\ globalState' = globalState]_vars

\* a process started on the day after two harvests: the fruits are cleared,
\* the completed sessions are kept
C20_Witness ==
    /\ lastOp = "activate"
    /\ today = 1
    /\ _state.lastResetDate = 1
    /\ _state.fruitsCollected = 0
    /\ _state.completedSessions = 2
    /\ _state.currentSessionSeconds = 0
    /\ ~_state.isTimerRunning
    /\ globalState = <<_state>>

\* the documented default of a field of GardenState, nextBreakScene apart
DefaultOf(f) ==
    IF f \in {"isTimerRunning", "isOnBreak"} THEN FALSE
    ELSE IF f = "lastResetDate" THEN today
    ELSE 0

\* C21 (as claimed): _loadState returns a record with all nine fields: the
\* defaults when nothing is stored, and otherwise every stored field as stored
\* and every missing field at its default (nextBreakScene: some index of
\* BREAK_SCENES).
C21_LoadCompletesRecord ==
    lastOp = "loadState" =>
        /\ DOMAIN _state = GardenFields
        /\ \A f \in GardenFields :
              IF globalState # <<>> /\ Has(globalState[1], f)
              THEN _state[f] = globalState[1][f]
              ELSE IF f = "nextBreakScene" THEN _state[f] \in RandomScenes
              ELSE _state[f] = DefaultOf(f)

\* C22 (as claimed): nextBreakScene and currentBreakScene are indices of
\* BREAK_SCENES in every reachable state, whatever number a
\* 'changeBreakScene' message carries.
C22_ScenesInRange ==
    /\ _state.nextBreakScene \in RandomScenes
    /\ _state.currentBreakScene \in RandomScenes

\* C23: at most one interval is live in every reachable state, and an event
\* that arms an interval of one kind leaves none of the other kind live.
C23_OneSchedulerArmed ==
    /\ [](intervals.work + intervals.break <= 1)
    /\ [](_timerInterval = "none" <=> intervals = NoIntervals)
    /\ [][/\ intervals'.work > intervals.work => intervals'.break = 0
          /\ intervals'.break > intervals.break => intervals'.work = 0]_vars

\* harvest has armed the break interval and no work interval is live
C23_Witness ==
    /\ lastOp = "harvest"
    /\ _state.isOnBreak
    /\ _timerInterval = "break"
    /\ intervals.break = 1
    /\ intervals.work = 0

\* a step of skipBreak in a state that is not on break
SkippedNoBreak ==
    /\ lastOp' = "skipBreak"
    /\ ~_state.isOnBreak

\* C24 (as claimed): skipBreak in a state that is not on break changes no
\* field of _state and leaves the live interval, that of a running session
\* in particular, as it is.
C24_SkipWithoutBreakIsNoOp ==
    [][SkippedNoBreak =>
          /\ _state' = _state
          /\ _timerInterval' = _timerInterval
          /\ intervals' = intervals]_vars

\* C25: stop in any state sets isTimerRunning = false, leaves every other
\* field of _state as it was, and leaves no work interval live.
C25_StopFrame ==
    [][lastOp' = "stop" =>
          /\ _state' = [_state EXCEPT !.isTimerRunning = FALSE]
          /\ intervals'.work = 0
          /\ _timerInterval' # "work"]_vars

\* stop has paused a running session that had advanced: the seconds are kept
C25_Witness ==
    /\ lastOp = "stop"
    /\ ~_state.isTimerRunning
    /\ _state.currentSessionSeconds = 1
    /\ durationSeconds > 1
    /\ _state.nextBreakScene = 3
    /\ intervals.work = 0
    /\ globalState = <<_state>>

\* C26: reset in any state sets currentSessionSeconds = 0 and isTimerRunning
\* = false and leaves every other field of _state as it was, the break fields
\* in particular.
C26_ResetFrame ==
    [][lastOp' = "reset" =>
          _state' = [_state EXCEPT !.currentSessionSeconds = 0,
                                   !.isTimerRunning = FALSE]]_vars

\* reset during a break: the session is cleared, the break fields and the
\* counts are kept
C26_Witness ==
    /\ lastOp = "reset"
    /\ _state.isOnBreak
    /\ _state.breakSecondsRemaining > 0
    /\ _state.currentBreakScene = 2
    /\ _state.fruitsCollected = 1
    /\ _state.completedSessions = 1
    /\ _state.currentSessionSeconds = 0
    /\ ~_state.isTimerRunning

\* a window state change in a state where the timer is not running
FocusChangedStopped ==
    /\ lastOp' = "focusChanged"
    /\ ~_state.isTimerRunning

\* C27: a window state change with the timer not running has the effects of
\* start (isTimerRunning set, nextBreakScene drawn, the record saved, the work
\* interval armed when the handle is free) exactly when the window is now
\* focused, autoStartOnFocus is true and the session is incomplete; otherwise
\* it changes no field of _state and arms nothing.
C27_AutoStartOnFocus ==
    [][FocusChangedStopped =>
          IF /\ _isWindowFocused'
             /\ settings.autoStartOnFocus
             /\ _state.currentSessionSeconds < durationSeconds
          THEN /\ _state'.nextBreakScene \in RandomScenes
               /\ _state' = [_state EXCEPT !.isTimerRunning = TRUE,
                                           !.nextBreakScene = _state'.nextBreakScene]
               /\ globalState' = <<_state'>>
               /\ _timerInterval = "none" =>
                     (_timerInterval' = "work" /\ intervals'.work = 1)
               /\ _timerInterval # "none" =>
                     (_timerInterval' = _timerInterval /\ intervals' = intervals)
          ELSE /\ _state' = _state
               /\ _timerInterval' = _timerInterval
               /\ intervals' = intervals]_vars

\* the window got the focus with autoStartOnFocus on and a complete session
\* waiting for its harvest: nothing was started
C27_Witness ==
    /\ lastOp = "focusChanged"
    /\ _isWindowFocused
    /\ settings.autoStartOnFocus
    /\ _state.currentSessionSeconds >= durationSeconds
    /\ ~_state.isTimerRunning
    /\ ~_state.isOnBreak
    /\ intervals = NoIntervals

\* the fields of the two messages of _updateWebview
BreakShape == {"isOnBreak", "breakScene", "breakTimeRemaining",
               "fruitsCollected", "completedSessions"}

WorkShape == {"isOnBreak", "stage", "progress", "timeRemaining", "isRunning",
              "isFocused", "fruitsCollected", "canHarvest", "durationMinutes",
              "nextBreakScene"}

\* the smaller of two numbers
Min(a, b) == IF a < b THEN a ELSE b

\* C28: the message the view has is the break one exactly when isOnBreak;
\* the garden one has canHarvest exactly when currentSessionSeconds >=
\* durationSeconds, progress = min(currentSessionSeconds / durationSeconds, 1)
\* within [0, 1], isRunning = isTimerRunning and isFocused = _isWindowFocused.
C28_ProjectionShape ==
    (_view /\ posted # <<>>) =>
        LET message == posted[1]
        IN  IF _state.isOnBreak
            THEN message.isOnBreak /\ DOMAIN message = BreakShape
            ELSE /\ ~message.isOnBreak /\ DOMAIN message = WorkShape
                 /\ message.canHarvest = (_state.currentSessionSeconds >= durationSeconds)
                 /\ message.progress[1] * durationSeconds =
                       Min(_state.currentSessionSeconds, durationSeconds) * message.progress[2]
                 /\ message.progress[2] > 0
                 /\ message.progress[1] >= 0
                 /\ message.progress[1] <= message.progress[2]
                 /\ message.isRunning = _state.isTimerRunning
                 /\ message.isFocused = _isWindowFocused

\* the garden is shown for a running session with more seconds than the
\* session length now set: progress is capped at 1 and canHarvest is true
C28_Witness ==
    /\ _view
    /\ posted # <<>>
    /\ ~posted[1].isOnBreak
    /\ _state.currentSessionSeconds > durationSeconds
    /\ posted[1].canHarvest
    /\ posted[1].progress = <<1, 1>>
    /\ posted[1].isRunning
    /\ ~posted[1].isFocused

\* a number below 100 as two decimal digits, and a number of seconds as
\* minutes and seconds of two digits each
DecimalDigits == <<"0", "1", "2", "3", "4", "5", "6", "7", "8", "9">>

TwoDigits(n) == DecimalDigits[(n \div 10) + 1] \o DecimalDigits[(n % 10) + 1]

MinutesAndSeconds(n) == TwoDigits(n \div 60) \o ":" \o TwoDigits(n % 60)

\* C29 (as claimed): in every reachable state the garden message has
\* timeRemaining = durationSeconds - currentSessionSeconds, which is not
\* negative, as two digits of minutes and two of seconds, and the break
\* message has breakSecondsRemaining written the same way.
C29_RemainingTimeRendered ==
    (_view /\ posted # <<>>) =>
        IF _state.isOnBreak
        THEN /\ _state.breakSecondsRemaining >= 0
             /\ posted[1].breakTimeRemaining =
                   MinutesAndSeconds(_state.breakSecondsRemaining)
        ELSE /\ durationSeconds - _state.currentSessionSeconds >= 0
             /\ posted[1].timeRemaining =
                   MinutesAndSeconds(durationSeconds - _state.currentSessionSeconds)

\* the stage _getCurrentStage returns at a number of elapsed seconds, and its
\* place in STAGES
StageAt(seconds) ==
    _getCurrentStage([Machine EXCEPT !.state.currentSessionSeconds = seconds])

StageIndex(stage) == CHOOSE k \in 1 .. Len(STAGES) : STAGES[k] = stage

\* C30: at every number of elapsed seconds from 0 to the session length the
\* stage is the label of STAGES numbered min(floor(10 * seconds /
\* durationSeconds), 9), counting from 0; so it never goes back as the seconds
\* go up, and a session of at least ten seconds passes through all ten
\* stages; the garden message carries the stage of the current seconds.
C30_StageOfProgress ==
    /\ \A seconds \in 0 .. durationSeconds :
          StageAt(seconds) = STAGES[Min((10 * seconds) \div durationSeconds, 9) + 1]
    /\ \A seconds \in 0 .. (durationSeconds - 1) :
          StageIndex(StageAt(seconds)) <= StageIndex(StageAt(seconds + 1))
    /\ durationSeconds >= Len(STAGES) =>
          \A k \in 1 .. Len(STAGES) :
             \E seconds \in 0 .. durationSeconds : StageAt(seconds) = STAGES[k]
    /\ (GardenShown /\ _state.currentSessionSeconds <= durationSeconds) =>
          posted[1].stage =
             STAGES[Min((10 * _state.currentSessionSeconds) \div durationSeconds, 9) + 1]

\* a session of ten seconds or more is seven tenths through: the garden
\* shows 'leafy', the eighth of the ten stages
C30_Witness ==
    /\ GardenShown
    /\ durationSeconds >= Len(STAGES)
    /\ _state.currentSessionSeconds * 10 >= 7 * durationSeconds
    /\ _state.currentSessionSeconds * 10 < 8 * durationSeconds
    /\ lastOp = "workTick"
    /\ posted[1].stage = "leafy"

\* C31: an event shows no notification while showNotifications is false; with
\* it true, the tick that finds the session complete shows "plant is ready",
\* a successful harvest shows the harvest notification, naming the long break
\* exactly when the break started is the long one, the tick that finds the
\* break at zero shows "Break over", each exactly once, and no other event
\* shows anything.
C31_NotificationsGated ==
    [][shown' =
          IF ~settings'.showNotifications THEN <<>>
          ELSE IF WorkTicked /\ _state.currentSessionSeconds >= durationSeconds
               THEN <<"sessionReady">>
          ELSE IF BreakTicked /\ _state.breakSecondsRemaining = 0
               THEN <<"breakOver">>
          ELSE IF Harvested
               THEN IF /\ (_state.completedSessions + 1) % settings.sessionsBeforeLongBreak = 0
                       /\ _state'.breakSecondsRemaining = TimesSixty(settings.longBreakDuration)
                    THEN <<"harvested:long">>
                    ELSE IF /\ (_state.completedSessions + 1) % settings.sessionsBeforeLongBreak # 0
                            /\ _state'.breakSecondsRemaining = TimesSixty(settings.shortBreakDuration)
                         THEN <<"harvested:short">>
                         ELSE <<"neither">>
          ELSE <<>>]_vars

\* with showNotifications off, the harvest that starts the long break has
\* shown nothing
C31_Witness ==
    /\ lastOp = "harvest"
    /\ ~settings.showNotifications
    /\ _state.isOnBreak
    /\ _state.breakSecondsRemaining = TimesSixty(settings.longBreakDuration)
    /\ _state.completedSessions = settings.sessionsBeforeLongBreak
    /\ shown = <<>>

\* the event that follows a configuration change
AfterSettingsChanged(op) ==
    /\ lastOp = "settingsChanged"
    /\ lastOp' = op

\* C32: a configuration change leaves _state, the stored record, the handle
\* and the live intervals as they were and posts the projection under the new
\* configuration; the tick or harvest that comes next acts on the new session
\* length, break lengths and sessionsBeforeLongBreak.
C32_SettingsReadFresh ==
    /\ [][lastOp' = "settingsChanged" =>
             /\ _state' = _state
             /\ globalState' = globalState
             /\ _timerInterval' = _timerInterval
             /\ intervals' = intervals
             /\ shown' = <<>>
             /\ _view => posted' = ProjectionOfNewState]_vars
    /\ [][AfterSettingsChanged("workTick") =>
             IF _state.currentSessionSeconds < TimesSixty(settings.pomodoroDuration)
             THEN _state'.currentSessionSeconds = _state.currentSessionSeconds + 1
             ELSE /\ _state'.currentSessionSeconds = _state.currentSessionSeconds
                  /\ ~_state'.isTimerRunning]_vars
    /\ [][AfterSettingsChanged("harvest") =>
             IF _state.currentSessionSeconds >= TimesSixty(settings.pomodoroDuration)
             THEN /\ _state'.completedSessions = _state.completedSessions + 1
                  /\ _state'.breakSecondsRemaining =
                        TimesSixty(IF _state'.completedSessions
                                         % settings.sessionsBeforeLongBreak = 0
                                   THEN settings.longBreakDuration
                                   ELSE settings.shortBreakDuration)
             ELSE _state' = _state]_vars

\* the session length was lowered under a running session: the timer runs on
\* and the garden shows the new length and canHarvest
C32_Witness ==
    /\ lastOp = "settingsChanged"
    /\ _state.isTimerRunning
    /\ intervals.work = 1
    /\ _state.currentSessionSeconds > durationSeconds
    /\ GardenShown
    /\ posted[1].durationMinutes = settings.pomodoroDuration
    /\ posted[1].canHarvest

\* the provider a new process would build now, and the one a second new
\* process would build from what the first one, `once`, left
LoadedOnce(random) == constructor(Machine, random)

LoadedTwice(once, random) == constructor(once, random)

\* C33: with a record stored, a second load on the same day gives the _state
\* of the first and writes nothing: the first load leaves lastResetDate =
\* today, under which _checkDailyReset neither assigns nor saves.  Stated for
\* the loads of every reachable state and for two activations in a row.
C33_DailyResetIdempotent ==
    /\ [](globalState # <<>> =>
             \A first \in RandomScenes :
                LET once == LoadedOnce(first)
                IN  /\ once.state.lastResetDate = today
                    /\ \A second \in RandomScenes :
                          LET twice == LoadedTwice(once, second)
                          IN  /\ twice.state = once.state
                              /\ twice.globalState = once.globalState)
    /\ [][(lastOp = "activate" /\ lastOp' = "activate" /\ globalState # <<>>) =>
             /\ _state.lastResetDate = today
             /\ _state' = _state
             /\ globalState' = globalState]_vars

\* a process started on the day after a harvest has reset the day; one more
\* load would change nothing
C33_Witness ==
    /\ lastOp = "activate"
    /\ today = 1
    /\ _state.lastResetDate = today
    /\ _state.fruitsCollected = 0
    /\ _state.completedSessions = 1
    /\ LoadedOnce(0).state = _state
    /\ LoadedOnce(0).globalState = globalState

\* C34 (as claimed): whenever a view is attached, the window is focused,
\* isTimerRunning is true and currentSessionSeconds is below the session
\* length, the work interval is armed.
C34_RunningSessionArmed ==
    (/\ _view
     /\ _isWindowFocused
     /\ _state.isTimerRunning
     /\ _state.currentSessionSeconds < durationSeconds)
        => (intervals.work = 1 /\ _timerInterval = "work")

\* C35 (as claimed): whenever isOnBreak is true and breakSecondsRemaining is
\* above 0, the break interval is armed.
C35_BreakArmed ==
    (_state.isOnBreak /\ _state.breakSecondsRemaining > 0)
        => (intervals.break = 1 /\ _timerInterval = "break")

\* C36: in every reachable state a live work interval implies isTimerRunning
\* and a live break interval implies isOnBreak.
C36_ArmedImpliesFlag ==
    /\ (intervals.work > 0 \/ _timerInterval = "work") => _state.isTimerRunning
    /\ (intervals.break > 0 \/ _timerInterval = "break") => _state.isOnBreak

\* a work tick has fired during a break that stop() froze and start() left
\* behind: the work interval is live, the break interval is not, both flags
\* are true
C36_Witness ==
    /\ lastOp = "workTick"
    /\ intervals = [work |-> 1, break |-> 0]
    /\ _timerInterval = "work"
    /\ _state.isTimerRunning
    /\ _state.isOnBreak

\* C37 (as claimed): in every reachable state isOnBreak implies
\* currentSessionSeconds = 0, so that harvestFruit cannot pass its test during
\* a break.
C37_NoProgressDuringBreak ==
    _state.isOnBreak => _state.currentSessionSeconds = 0

\* The controller in a fresh profile with the default configuration, with the
\* history of the 'plant is ready' messages kept
InitReady ==
    \E random \in RandomScenes :
        Activated(BaseSettings, <<>>, random, Untracked, Untracked, <<0>>)

SpecReady == InitReady /\ [][Controller]_vars

\* C38 (as claimed): between the tick that brings currentSessionSeconds to the
\* session length and the next harvest or reset, the 'plant is ready' message
\* is shown at most once.
C38_ReadyOncePerSession == ready[1] <= 1

\* the state right after a harvest that passed its test (it has shown its
\* message)
JustHarvested == lastOp = "harvest" /\ shown # <<>>

\* C39: a harvest that passes its test while the work interval is armed (in
\* particular right after the tick that reached the session length) clears
\* that interval and arms the break interval, shows no 'plant is ready'
\* message and zeroes currentSessionSeconds; the first tick after a passed
\* harvest is a break tick that takes one second off breakSecondsRemaining and
\* leaves currentSessionSeconds at 0.
C39_HarvestCancelsPendingTick ==
    /\ [][(Harvested /\ intervals.work = 1) =>
             /\ intervals' = [work |-> 0, break |-> 1]
             /\ _timerInterval' = "break"
             /\ _state'.currentSessionSeconds = 0
             /\ ~_state'.isTimerRunning
             /\ shown' \in {<<"harvested:long">>, <<"harvested:short">>}
             /\ ready' = <<0>>]_vars
    /\ [][(JustHarvested /\ (WorkTicked \/ BreakTicked)) =>
             /\ BreakTicked
             /\ _state'.breakSecondsRemaining = _state.breakSecondsRemaining - 1
             /\ _state.currentSessionSeconds = 0
             /\ _state'.currentSessionSeconds = 0
             /\ shown' = <<>>
             /\ ready' = <<0>>]_vars

\* the first break tick after the harvest of the first session: one second
\* of the short break is gone, no work interval is live, no 'plant is ready'
\* message was shown
C39_Witness ==
    /\ lastOp = "breakTick"
    /\ _state.fruitsCollected = 1
    /\ _state.isOnBreak
    /\ _state.breakSecondsRemaining = TimesSixty(settings.shortBreakDuration) - 1
    /\ _state.currentSessionSeconds = 0
    /\ intervals = [work |-> 0, break |-> 1]
    /\ ready = <<0>>

====
